---- MODULE Spec2Model ----
(***************************************************************************)
(* hmmlearn/utils.py: normalize, exp_mask_zero, log_mask_zero, logsumexp   *)
(* and iter_from_X_lengths, as operations on numpy arrays.                 *)
(*                                                                         *)
(* Numbers.  A float is a record: a rational n/d ("fin"), one of the IEEE  *)
(* specials ("nan", "inf", "-inf"), a linear combination of exponentials   *)
(* q + SUM c_x * e^x ("lin", what np.exp and a sum of its results give) or *)
(* ln(S) + q ("log").  Arithmetic is exact: rounding to 53 bits is not     *)
(* modelled.  What is modelled of IEEE is what the code tests for: the     *)
(* underflow of exp to 0.0, x/0, 0/0, log 0, log of a negative number, and *)
(* the propagation of nan and inf.                                         *)
(*                                                                         *)
(* Arrays.  [ndim |-> 0, v |-> x] is a numpy scalar, [ndim |-> 1,          *)
(* v |-> <<x1, ..>>] a vector, [ndim |-> 2, v |-> <<row1, ..>>] a matrix.  *)
(* Source indices are 0-based, sequences 1-based: a[i][j] is v[i+1][j+1].  *)
(***************************************************************************)
EXTENDS Integers, Sequences, FiniteSets, Bags, TLC

\* ---------------------------------------------------------------- bounds
\* Largest matrix handed to normalize: MaxRows x MaxCols.
MaxRows == 3
MaxCols == 3
\* Longest vector handed to any of the functions.
MaxLen == 3
\* Largest matrix handed to logsumexp: MaxLogDim x MaxLogDim.
MaxLogDim == 2
\* iter_from_X_lengths: most samples, most segments, longest segment.
MaxSamples == 4
MaxSegments == 3
MaxSegLen == 2
\* np.finfo(float).eps is modelled as 1/EpsInv (2^-52 in the source: small
\* against 1, the sums of a few of it small against the tolerance).
EpsInv == 1024
\* The tolerance of the sum-to-one test is modelled as 1/TolInv (1e-10 in
\* the specification: small against 1, large against a few eps).
TolInv == 64

\* ----------------------------------------------------------- IEEE doubles
\* The least integer whose exponential is not 0.0: np.exp(-745.0) is
\* 4.9e-324, np.exp(-746.0) is 0.0.
ExpUnderflow == -745

RECURSIVE GCD(_, _)
GCD(m, n) == IF n = 0 THEN m ELSE GCD(n, m % n)

Abs(n) == IF n < 0 THEN -n ELSE n

Fin(n, d) ==
    LET g == GCD(Abs(n), Abs(d))
        s == IF d < 0 THEN -1 ELSE 1
    IN  [k |-> "fin", n |-> s * (n \div g), d |-> s * (d \div g)]

NaN    == [k |-> "nan"]
PosInf == [k |-> "inf"]
NegInf == [k |-> "-inf"]
Zero   == Fin(0, 1)
One    == Fin(1, 1)
\* np.finfo(float).eps
Eps    == Fin(1, EpsInv)

IsFin(x) == x.k = "fin"
IsNaN(x) == x.k = "nan"
\* a sum of exponentials that is no rational number
IsLin(x) == x.k = "lin"
IsLog(x) == x.k = "log"

\* x < y for rationals
FinLess(x, y) == x.n * y.d < y.n * x.d

\* x + y for rationals, over the least common denominator
FinAdd(x, y) ==
    LET l == (x.d \div GCD(x.d, y.d)) * y.d
    IN  Fin(x.n * (l \div x.d) + y.n * (l \div y.d), l)

\* The linear form q + SUM c_x * e^x of a rational or of a "lin" value.
RatOf(x)  == IF IsFin(x) THEN x ELSE x.rat
ExpsOf(x) == IF IsFin(x) THEN EmptyBag ELSE x.exps
Lin(q, exps) ==
    IF exps = EmptyBag THEN q ELSE [k |-> "lin", rat |-> q, exps |-> exps]

\* IEEE x + y
AddF(x, y) ==
    CASE IsNaN(x) \/ IsNaN(y) -> NaN
      [] x = PosInf -> IF y = NegInf THEN NaN ELSE PosInf
      [] x = NegInf -> IF y = PosInf THEN NaN ELSE NegInf
      [] y = PosInf \/ y = NegInf -> y
      [] IsLog(x) -> [x EXCEPT !.plus = FinAdd(x.plus, y)]
      [] IsLog(y) -> [y EXCEPT !.plus = FinAdd(y.plus, x)]
      [] OTHER -> Lin(FinAdd(RatOf(x), RatOf(y)), ExpsOf(x) (+) ExpsOf(y))

\* IEEE -x, of a rational or a special
NegF(x) ==
    CASE IsFin(x) -> Fin(-x.n, x.d)
      [] x = PosInf -> NegInf
      [] x = NegInf -> PosInf
      [] OTHER -> x

SubF(x, y) == AddF(x, NegF(y))

\* IEEE x / y of rationals: x/0 is +-inf, 0/0 is nan (numpy warns, and does
\* not raise).
DivF(x, y) ==
    IF y.n = 0
    THEN (IF x.n = 0 THEN NaN ELSE IF x.n > 0 THEN PosInf ELSE NegInf)
    ELSE Fin(x.n * y.d, x.d * y.n)

\* x == 0, x < y, x > 0, x >= 0 as numpy evaluates them: false on nan
IsZero(x) == x = Zero
IsPos(x)  == x = PosInf \/ IsLin(x) \/ (IsFin(x) /\ x.n > 0)
LessF(x, y) ==
    CASE IsNaN(x) \/ IsNaN(y) -> FALSE
      [] x = y -> FALSE
      [] x = NegInf \/ y = PosInf -> TRUE
      [] x = PosInf \/ y = NegInf -> FALSE
      [] OTHER -> FinLess(x, y)

\* np.exp(x) of a rational or a special, underflow to 0.0 included
ExpF(x) ==
    CASE IsNaN(x) -> NaN
      [] x = PosInf -> PosInf
      [] x = NegInf -> Zero
      [] OTHER ->
           IF x.n < ExpUnderflow * x.d THEN Zero
           ELSE IF x.n = 0 THEN One
           ELSE Lin(Zero, SetToBag({x}))

\* np.log(x): log 0 is -inf, the log of a negative number or of -inf is nan
LogF(x) ==
    CASE IsNaN(x) -> NaN
      [] x = PosInf -> PosInf
      [] x = NegInf -> NaN
      [] IsFin(x) ->
           IF x.n < 0 THEN NaN
           ELSE IF x.n = 0 THEN NegInf
           ELSE IF x = One THEN Zero
           ELSE [k |-> "log", of |-> x, plus |-> Zero]
      [] OTHER -> [k |-> "log", of |-> x, plus |-> Zero]

\* ------------------------------------------------------------------ arrays
\* The sequence s with every element computed (an array holds values, not
\* pending computations).
Strict(s) == SubSeq(s, 1, Len(s))

Scalar(x) == [ndim |-> 0, v |-> x]
Vector(s) == [ndim |-> 1, v |-> Strict(s)]
Matrix(m) == [ndim |-> 2, v |-> Strict([i \in DOMAIN m |-> Strict(m[i])])]

\* a.shape[0] and a.shape[1]
Rows(a) == Len(a.v)
Cols(a) == Len(a.v[1])

\* The index pairs of a matrix and the indices of a vector, 0-based.
Cells(a) ==
    IF a.ndim = 2 THEN (0 .. Rows(a) - 1) \X (0 .. Cols(a) - 1)
    ELSE IF a.ndim = 1 THEN {<<i>> : i \in 0 .. Len(a.v) - 1}
    ELSE {<<>>}

At(a, c) ==
    IF a.ndim = 2 THEN a.v[c[1] + 1][c[2] + 1]
    ELSE IF a.ndim = 1 THEN a.v[c[1] + 1]
    ELSE a.v

\* The elements of a in row-major order (a.flat), and the array of the
\* shape of a that holds the elements s in that order.
Flat(a) ==
    IF a.ndim = 2
    THEN LET nc == Cols(a)
         IN  [k \in 1 .. Rows(a) * nc |-> a.v[((k - 1) \div nc) + 1][((k - 1) % nc) + 1]]
    ELSE IF a.ndim = 1 THEN a.v
    ELSE <<a.v>>

Like(a, s) ==
    IF a.ndim = 2
    THEN LET nc == Cols(a)
         IN  Matrix([i \in 1 .. Rows(a) |-> [j \in 1 .. nc |-> s[(i - 1) * nc + j]]])
    ELSE IF a.ndim = 1 THEN Vector(s)
    ELSE Scalar(s[1])

RECURSIVE SumSeq(_)
SumSeq(s) == IF s = <<>> THEN Zero ELSE AddF(SumSeq(SubSeq(s, 1, Len(s) - 1)), s[Len(s)])

Row(a, i) == a.v[i]
Col(a, j) == [i \in 1 .. Rows(a) |-> a.v[i][j]]

\* axis as numpy resolves it: a negative axis counts from the last one.
\* An axis argument is <<>> for None and <<k>> for the integer k.
AxisOf(a, axis) == IF axis[1] < 0 THEN axis[1] + a.ndim ELSE axis[1]

\* a.sum(axis): every element when axis is None, else the sums over `axis`.
SumAxis(a, axis) ==
    IF a.ndim = 1 THEN Scalar(SumSeq(a.v))
    ELSE IF axis = <<>>
    THEN Scalar(SumSeq([i \in 1 .. Rows(a) |-> SumSeq(Row(a, i))]))
    ELSE IF AxisOf(a, axis) = 0
    THEN Vector([j \in 1 .. Cols(a) |-> SumSeq(Col(a, j))])
    ELSE Vector([i \in 1 .. Rows(a) |-> SumSeq(Row(a, i))])

\* ---------------------------------------------------------------- objects
\* The heap is the sequence of the array objects allocated so far; a
\* reference is an index into it.  The caller's array is object 1.
Alloc(h, a) == [heap |-> Append(h, a), id |-> Len(h) + 1]

\* a[i][j] = x on object id.  On a vector a[i] is a numpy scalar, which
\* supports no item assignment (TypeError); an index beyond a dimension is
\* an IndexError.  The object is untouched when the statement raises.
SetItem(h, id, i, j, x) ==
    LET a == h[id]
    IN  IF a.ndim = 1
        THEN [heap |-> h,
              raised |-> IF i >= Len(a.v) THEN "IndexError" ELSE "TypeError"]
        ELSE IF i >= Rows(a) \/ j >= Cols(a)
        THEN [heap |-> h, raised |-> "IndexError"]
        ELSE [heap |-> [h EXCEPT ![id].v[i + 1][j + 1] = x], raised |-> "none"]

\* ------------------------------------------------------------- normalize
\* The fault of a mask that leaves a[2][1] out.
MaskCellsShort == <<<<0, 2>>, <<1, 0>>, <<2, 0>>>>

\* The cells of the structural mask, in the order the source assigns them.
MaskCells == <<<<0, 2>>, <<1, 0>>, <<2, 0>>, <<2, 1>>>>

\* The assignments a[i][j] = x for the cells in turn, up to the first that
\* raises; `written` collects the cells assigned.
RECURSIVE ApplyMask(_, _, _, _)
ApplyMask(st, id, cells, x) ==
    IF cells = <<>> \/ st.raised # "none" THEN st
    ELSE LET c == Head(cells)
             r == SetItem(st.heap, id, c[1], c[2], x)
         IN  ApplyMask([heap |-> r.heap, raised |-> r.raised,
                        written |-> IF r.raised = "none"
                                    THEN st.written \cup {c} ELSE st.written],
                       id, Tail(cells), x)

\* `if axis`: None and 0 are both false.
Truthy(axis) == axis # <<>> /\ axis[1] # 0

\* a_sum[a_sum == 0] = 1
ReplaceZeroSums(s) ==
    LET f == Flat(s)
    IN  Like(s, [k \in DOMAIN f |-> IF IsZero(f[k]) THEN One ELSE f[k]])

\* shape = list(a.shape); shape[axis] = 1; a_sum.shape = shape
Reshape(s, a, axis) ==
    IF AxisOf(a, axis) = 0 THEN Matrix(<<s.v>>)
    ELSE Matrix([i \in 1 .. Len(s.v) |-> <<s.v[i]>>])

\* The element of s that broadcasting pairs with a[i][j] (1-based here).
Broadcast(s, i, j) ==
    IF s.ndim = 0 THEN s.v
    ELSE IF s.ndim = 1 THEN s.v[IF Len(s.v) = 1 THEN 1 ELSE j]
    ELSE s.v[IF Rows(s) = 1 THEN 1 ELSE i][IF Cols(s) = 1 THEN 1 ELSE j]

Divide(a, s) ==
    IF a.ndim = 2
    THEN Matrix([i \in 1 .. Rows(a) |->
                    [j \in 1 .. Cols(a) |-> DivF(a.v[i][j], Broadcast(s, i, j))]])
    ELSE Vector([j \in 1 .. Len(a.v) |-> DivF(a.v[j], Broadcast(s, 1, j))])

\* The fault of a normalize that never adds eps.
InPlaceAddSkipped(h, id, x) == [heap |-> h, id |-> id]

\* a += x and a /= s: the object itself is overwritten; `id` is what the
\* name a refers to afterwards.
InPlaceAdd(h, id, x) ==
    LET f == Flat(h[id])
    IN  [heap |-> [h EXCEPT ![id] = Like(h[id], [k \in DOMAIN f |-> AddF(f[k], x)])],
         id |-> id]

InPlaceDivide(h, id, s) ==
    [heap |-> [h EXCEPT ![id] = Divide(h[id], s)], id |-> id]

\* A local of normalize that was never bound.
Unbound == [ndim |-> -1, v |-> <<>>]

\* a_sum as the division uses it
Divisor(a, s, axis) ==
    IF Truthy(axis) /\ a.ndim > 1 THEN Reshape(ReplaceZeroSums(s), a, axis)
    ELSE s

\* normalize(a, axis) called on object id of heap h.  The result is the
\* heap afterwards, what was raised, the object returned (0: none) and the
\* locals: the array and a_sum as of line 39, a_sum as of line 47, and the
\* cells assigned by lines 32-37 and by lines 49-54.
normalize(h, id, axis) ==
    LET s1 == InPlaceAdd(h, id, Eps)
        m1 == ApplyMask([heap |-> s1.heap, raised |-> "none", written |-> {}],
                        s1.id, MaskCells, Zero)
        sum == SumAxis(m1.heap[s1.id], axis)
        div == Divisor(m1.heap[s1.id], sum, axis)
        s2 == InPlaceDivide(m1.heap, s1.id, div)
        m2 == ApplyMask([heap |-> s2.heap, raised |-> "none", written |-> {}],
                        s2.id, MaskCells, Eps)
    IN  IF m1.raised # "none"
        THEN [heap |-> m1.heap, raised |-> m1.raised, ret |-> 0,
              at_sum |-> Unbound, a_sum |-> Unbound, divisor |-> Unbound,
              zeroed |-> m1.written, filled |-> {}]
        ELSE [heap |-> m2.heap, raised |-> m2.raised,
              ret |-> IF m2.raised = "none" THEN s2.id ELSE 0,
              at_sum |-> m1.heap[s1.id], a_sum |-> sum, divisor |-> div,
              zeroed |-> m1.written, filled |-> m2.written]

\* ---------------------------------------------- exp_mask_zero, log_mask_zero
\* The fault of np.exp(a, out=a): the argument itself is overwritten.
NpExpInPlace(h, id) ==
    LET f == Flat(h[id])
    IN  [heap |-> [h EXCEPT ![id] = Like(h[id], [k \in DOMAIN f |-> ExpF(f[k])])],
         id |-> id]

\* np.exp(a), np.log(a): the result is a new array object.
NpExp(h, id) ==
    LET f == Flat(h[id])
    IN  Alloc(h, Like(h[id], [k \in DOMAIN f |-> ExpF(f[k])]))

NpLog(h, id) ==
    LET f == Flat(h[id])
    IN  Alloc(h, Like(h[id], [k \in DOMAIN f |-> LogF(f[k])]))

\* The fault of an exp_mask_zero that masks nothing.
MaskZerosSkipped(a) == a

\* out[out == 0] = np.finfo(float).eps
MaskZeros(a) ==
    LET f == Flat(a)
    IN  Like(a, [k \in DOMAIN f |-> IF IsZero(f[k]) THEN Eps ELSE f[k]])

\* The fault of masking every non-finite logarithm, -inf included.
MaskNonFinite(a) ==
    LET f == Flat(a)
    IN  Like(a, [k \in DOMAIN f |-> IF IsNaN(f[k]) \/ f[k] = NegInf THEN Zero ELSE f[k]])

\* out[np.isnan(out)] = 0.0
MaskNaNs(a) ==
    LET f == Flat(a)
    IN  Like(a, [k \in DOMAIN f |-> IF IsNaN(f[k]) THEN Zero ELSE f[k]])

\* exp_mask_zero(a) on object id: the heap afterwards and the object
\* returned.  Underflow is ignored by np.errstate, nothing raises.
exp_mask_zero(h, id) ==
    LET out == NpExp(h, id)
    IN  [heap |-> [out.heap EXCEPT ![out.id] = MaskZeros(out.heap[out.id])],
         ret |-> out.id]

\* log_mask_zero(a) on object id.
log_mask_zero(h, id) ==
    LET out == NpLog(h, id)
    IN  [heap |-> [out.heap EXCEPT ![out.id] = MaskNaNs(out.heap[out.id])],
         ret |-> out.id]

\* -------------------------------------------------------------- logsumexp
\* np.rollaxis(a, axis): `axis` becomes the leading dimension.  The result
\* is a view of a; nothing is written through it.
RollAxis(a, axis) ==
    IF a.ndim = 2 /\ AxisOf(a, axis) = 1
    THEN Matrix([j \in 1 .. Cols(a) |-> Col(a, j)])
    ELSE a

\* The maximum as np.max computes it: nan when any element is nan.
RECURSIVE MaxSeq(_)
MaxSeq(s) ==
    IF Len(s) = 1 THEN s[1]
    ELSE LET m == MaxSeq(SubSeq(s, 1, Len(s) - 1))
             x == s[Len(s)]
         IN  IF IsNaN(m) \/ IsNaN(x) THEN NaN
             ELSE IF LessF(m, x) THEN x ELSE m

\* a.max(axis=0) and a.sum(axis=0)
MaxAxis0(a) ==
    IF a.ndim = 1 THEN Scalar(MaxSeq(a.v))
    ELSE Vector([j \in 1 .. Cols(a) |-> MaxSeq(Col(a, j))])

SumAxis0(a) == SumAxis(a, <<0>>)

\* a - m with m broadcast along the leading dimension
SubBroadcast(a, m) ==
    IF a.ndim = 2
    THEN Matrix([i \in 1 .. Rows(a) |->
                    [j \in 1 .. Cols(a) |-> SubF(a.v[i][j], Broadcast(m, i, j))]])
    ELSE Vector([j \in 1 .. Len(a.v) |-> SubF(a.v[j], Broadcast(m, 1, j))])

\* The fault of a logsumexp that never adds a_max back.
AddArraysSkipped(out, m) == out

\* out + m, elementwise
AddArrays(out, m) ==
    IF out.ndim = 0 THEN Scalar(AddF(out.v, m.v))
    ELSE Vector([j \in 1 .. Len(out.v) |-> AddF(out.v[j], m.v[j])])

\* logsumexp(a, axis) on object id: every intermediate array is a new
\* object; out += a_max writes into out, which np.log allocated.
logsumexp(h, id, axis) ==
    LET a     == RollAxis(h[id], axis)
        a_max == MaxAxis0(a)
        diff  == Alloc(h, SubBroadcast(a, a_max))
        e     == exp_mask_zero(diff.heap, diff.id)
        sum   == Alloc(e.heap, SumAxis0(e.heap[e.ret]))
        out   == NpLog(sum.heap, sum.id)
    IN  [heap |-> [out.heap EXCEPT ![out.id] = AddArrays(out.heap[out.id], a_max)],
         ret |-> out.id]

\* ---------------------------------------------------- iter_from_X_lengths
\* The lengths argument: None, or a sequence of segment lengths.
None == [given |-> FALSE, v |-> <<>>]
Some(s) == [given |-> TRUE, v |-> s]

\* np.cumsum(lengths): the running totals.  (astype(np.int32) changes no
\* total below 2^31.)
RECURSIVE CumSum(_)
CumSum(s) ==
    IF s = <<>> THEN <<>>
    ELSE LET c == CumSum(SubSeq(s, 1, Len(s) - 1))
         IN  Append(c, (IF c = <<>> THEN 0 ELSE c[Len(c)]) + s[Len(s)])

\* The generator run to its end: the pairs it yields and what it raises.
\* end[-1] of an empty array is an IndexError.
iter_from_X_lengths(X, ls) ==
    IF ~ls.given THEN [yielded |-> <<<<0, Len(X.v)>>>>, raised |-> "none"]
    ELSE LET n_samples == Len(X.v)
             end   == CumSum(ls.v)
             start == [i \in 1 .. Len(end) |-> end[i] - ls.v[i]]
         IN  IF end = <<>> THEN [yielded |-> <<>>, raised |-> "IndexError"]
             ELSE IF end[Len(end)] > n_samples
             THEN [yielded |-> <<>>, raised |-> "ValueError"]
             ELSE [yielded |-> [i \in 1 .. Len(ls.v) |-> <<start[i], end[i]>>],
                   raised |-> "none"]

\* --------------------------------------------------------------- inputs
\* The weights normalize is handed: -eps, 0 and 1, and their sums.
Weights == {Fin(-1, EpsInv), Zero, One}

\* Matrices a[i][j] = r[i] + c[j] for row parts over Weights and column
\* parts over {0, 1}: among them the all-zero matrix, matrices with one
\* all-zero row or column, and matrices with cells that cancel against
\* the eps added.
NormalizeMatrices ==
    UNION {{Matrix([i \in 1 .. nr |-> [j \in 1 .. nc |-> AddF(r[i], c[j])]]) :
               r \in [1 .. nr -> Weights], c \in [1 .. nc -> {Zero, One}]} :
           nr \in 1 .. MaxRows, nc \in 1 .. MaxCols}

NormalizeVectors ==
    UNION {{Vector(s) : s \in [1 .. n -> Weights]} : n \in 1 .. MaxLen}

\* The axis arguments numpy accepts for a: None, and -ndim .. ndim-1.
IntAxes(a) == {<<k>> : k \in -a.ndim .. a.ndim - 1}
ValidAxes(a) == {<<>>} \cup IntAxes(a)

\* Log-domain values: the specials, both sides of the underflow of exp,
\* and small integers.
LogValues ==
    {NegInf, PosInf, NaN, Fin(ExpUnderflow - 1, 1), Fin(ExpUnderflow, 1),
     Fin(-1, 1), Zero}

LogVectors ==
    UNION {{Vector(s) : s \in [1 .. n -> LogValues]} : n \in 1 .. MaxLen}

\* Matrices a[i][j] = r[i] + c[j], r over -inf, nan, 0 and a value below
\* the underflow of exp, c over {0, -1}.
LogMatrices ==
    UNION {{Matrix([i \in 1 .. nr |-> [j \in 1 .. nc |-> AddF(r[i], c[j])]]) :
               r \in [1 .. nr -> {NegInf, NaN, Fin(ExpUnderflow - 1, 1), Zero}],
               c \in [1 .. nc -> {Zero, Fin(-1, 1)}]} :
           nr \in 1 .. MaxLogDim, nc \in 1 .. MaxLogDim}

\* Linear-domain values for log_mask_zero: the specials, negative, zero
\* and positive numbers.
LinValues ==
    {NegInf, PosInf, NaN, Fin(-1, 1), Zero, Eps, One}

LinVectors ==
    UNION {{Vector(s) : s \in [1 .. n -> LinValues]} : n \in 1 .. MaxLen}

\* iter_from_X_lengths: X with n samples, and the lengths arguments.
Samples(n) == Vector([i \in 1 .. n |-> Zero])
LengthsArgs ==
    {None} \cup UNION {{Some(s) : s \in [1 .. n -> 0 .. MaxSegLen]} :
                       n \in 0 .. MaxSegments}

\* ----------------------------------------------------------------- state
VARIABLES
    op,        \* the function called, "none" before the call
    input,     \* the array argument as it was when the call was made
    axis,      \* the axis argument
    heap,      \* the array objects; object 1 is the caller's array
    ret,       \* the object returned, 0 when nothing was returned
    raised,    \* the exception the call raised, "none" when it returned
    locals,    \* normalize's locals, for the other functions Unbound
    lengths,   \* iter_from_X_lengths: the lengths argument
    yielded    \* iter_from_X_lengths: the pairs yielded, in order

vars == <<op, input, axis, heap, ret, raised, locals, lengths, yielded>>

NoLocals == [at_sum |-> Unbound, a_sum |-> Unbound, divisor |-> Unbound,
             zeroed |-> {}, filled |-> {}]

Init ==
    /\ op = "none"
    /\ input = Unbound
    /\ axis = <<>>
    /\ heap = <<>>
    /\ ret = 0
    /\ raised = "none"
    /\ locals = NoLocals
    /\ lengths = None
    /\ yielded = <<>>

Normalize ==
    /\ op = "none"
    /\ \E a \in NormalizeMatrices \cup NormalizeVectors :
         \E ax \in ValidAxes(a) :
            LET r == normalize(<<a>>, 1, ax)
            IN  /\ op' = "normalize"
                /\ input' = a
                /\ axis' = ax
                /\ heap' = r.heap
                /\ ret' = r.ret
                /\ raised' = r.raised
                /\ locals' = [at_sum |-> r.at_sum, a_sum |-> r.a_sum,
                              divisor |-> r.divisor, zeroed |-> r.zeroed,
                              filled |-> r.filled]
                /\ UNCHANGED <<lengths, yielded>>

\* A call of one of the functions that raise nothing: f(<<a>>, 1, ax) is
\* the call on the caller's array.
Returns(name, a, ax, r) ==
    /\ op' = name
    /\ input' = a
    /\ axis' = ax
    /\ heap' = r.heap
    /\ ret' = r.ret
    /\ raised' = "none"
    /\ UNCHANGED <<locals, lengths, yielded>>

ExpMaskZero ==
    /\ op = "none"
    /\ \E a \in LogVectors \cup LogMatrices :
         Returns("exp_mask_zero", a, <<>>, exp_mask_zero(<<a>>, 1))

LogMaskZero ==
    /\ op = "none"
    /\ \E a \in LinVectors \cup NormalizeMatrices :
         Returns("log_mask_zero", a, <<>>, log_mask_zero(<<a>>, 1))

LogSumExp ==
    /\ op = "none"
    /\ \E a \in LogVectors \cup LogMatrices :
         \E ax \in IntAxes(a) :
            Returns("logsumexp", a, ax, logsumexp(<<a>>, 1, ax))

IterFromXLengths ==
    /\ op = "none"
    /\ \E n \in 0 .. MaxSamples, ls \in LengthsArgs :
         LET r == iter_from_X_lengths(Samples(n), ls)
         IN  /\ op' = "iter_from_X_lengths"
             /\ input' = Samples(n)
             /\ lengths' = ls
             /\ yielded' = r.yielded
             /\ raised' = r.raised
             /\ heap' = <<Samples(n)>>
             /\ UNCHANGED <<axis, ret, locals>>

Next ==
    \/ Normalize
    \/ ExpMaskZero
    \/ LogMaskZero
    \/ LogSumExp
    \/ IterFromXLengths

Spec == Init /\ [][Next]_vars

\* ================================================================ claims
\* The caller's array as it is after the call, and the array returned.
Caller == heap[1]
Returned == heap[ret]

Called(name) == op = name
Completed(name) == op = name /\ raised = "none"

\* The reduction slices of a along axis, as sets of cells, in the order of
\* the sums of a.sum(axis).
SlicesOf(a, ax) ==
    IF a.ndim = 1 \/ ax = <<>> THEN <<Cells(a)>>
    ELSE IF AxisOf(a, ax) = 0
    THEN [j \in 1 .. Cols(a) |-> {c \in Cells(a) : c[2] = j - 1}]
    ELSE [i \in 1 .. Rows(a) |-> {c \in Cells(a) : c[1] = i - 1}]

SliceIds(a, ax) == DOMAIN SlicesOf(a, ax)

RECURSIVE SumOver(_, _)
SumOver(a, S) ==
    IF S = {} THEN Zero
    ELSE LET c == CHOOSE c \in S : TRUE
         IN  AddF(At(a, c), SumOver(a, S \ {c}))

\* The tolerance of the sum-to-one test.
Tol == Fin(1, TolInv)

\* |x - 1| <= Tol
SumsToOne(x) ==
    /\ IsFin(x)
    /\ LET d == FinAdd(x, Fin(-1, 1)) IN Abs(d.n) * Tol.d <= d.d * Tol.n

NonNegative(a) == \A c \in Cells(a) : At(a, c).n >= 0
AllZero(a, S) == \A c \in S : At(a, c) = Zero

\* The four cells the source's mask names.
FourCells == {<<0, 2>>, <<1, 0>>, <<2, 0>>, <<2, 1>>}

\* The k-th sum of a_sum, before and after line 42.
SumAt(s, k) ==
    IF s.ndim = 0 THEN s.v
    ELSE IF s.ndim = 1 THEN s.v[k]
    ELSE IF Rows(s) = 1 THEN s.v[1][k] ELSE s.v[k][1]

\* C1: for every non-negative array and every valid axis normalize returns
\* without raising, and afterwards every reduction slice sums to 1 within
\* the tolerance.
C1_NormalizeSumsToOne ==
    (Called("normalize") /\ NonNegative(input)) =>
        /\ raised = "none"
        /\ \A k \in SliceIds(Caller, axis) :
              SumsToOne(SumOver(Caller, SlicesOf(Caller, axis)[k]))

\* C2: no element of exp_mask_zero(a) is 0.0: an element whose exponential
\* is 0.0 comes back as eps, every other element as its exponential.
C2_ExpMaskZeroNoZero ==
    Called("exp_mask_zero") =>
        \A c \in Cells(input) :
            LET e == ExpF(At(input, c))
                o == At(Returned, c)
            IN  /\ o # Zero
                /\ e = Zero => o = Eps
                /\ e # Zero => o = e

\* C2 witness: an element below the underflow of exp and an element -inf
\* both came back as eps.
C2_Witness ==
    /\ Called("exp_mask_zero")
    /\ \E c, d \in Cells(input) :
          /\ At(input, c) = Fin(ExpUnderflow - 1, 1)
          /\ At(input, d) = NegInf
          /\ At(Returned, c) = Eps
          /\ At(Returned, d) = Eps

IsNegative(x) == x = NegInf \/ (IsFin(x) /\ x.n < 0)

\* C3 as stated: log_mask_zero(a) holds no nan, and every element of a that
\* is zero or negative comes back as 0.0.
C3_ZeroOrNegativeToZero ==
    Called("log_mask_zero") =>
        \A c \in Cells(input) :
            /\ ~IsNaN(At(Returned, c))
            /\ (At(input, c) = Zero \/ IsNegative(At(input, c)))
                  => At(Returned, c) = Zero

\* C3 amended: log_mask_zero(a) holds no nan; every element of a that is
\* negative or nan (whose logarithm is nan) comes back as 0.0; an element 0
\* comes back as -inf, its logarithm; every other element as its logarithm.
C3_OnlyNaNMasked ==
    Called("log_mask_zero") =>
        \A c \in Cells(input) :
            LET x == At(input, c)
                o == At(Returned, c)
            IN  /\ ~IsNaN(o)
                /\ (IsNegative(x) \/ IsNaN(x)) => o = Zero
                /\ x = Zero => o = NegInf
                /\ IsPos(x) => o = LogF(x)

\* C3 witness: a zero came back as -inf and a negative number as 0.0.
C3_Witness ==
    /\ Called("log_mask_zero")
    /\ \E c, d \in Cells(input) :
          /\ At(input, c) = Zero
          /\ At(Returned, c) = NegInf
          /\ At(input, d) = Fin(-1, 1)
          /\ At(Returned, d) = Zero

\* logsumexp(a, axis) as a value, and a - c, out + c for a scalar c
LogSumExpOf(a, ax) == LET r == logsumexp(<<a>>, 1, ax) IN r.heap[r.ret]
Shifted(a, c) ==
    LET f == Flat(a) IN Like(a, [k \in DOMAIN f |-> SubF(f[k], c)])
ShiftedBack(a, c) ==
    LET f == Flat(a) IN Like(a, [k \in DOMAIN f |-> AddF(f[k], c)])

\* The constant shifts c of logsumexp(a - c) + c.
Shifts == {One, Fin(-1, 1), Fin(-ExpUnderflow, 1), Fin(ExpUnderflow, 1)}

HasFinitePerSlice(a, ax) ==
    \A k \in SliceIds(a, ax) : \E c \in SlicesOf(a, ax)[k] : IsFin(At(a, c))

C5_ZeroSliceAllEps ==
    Completed("normalize") =>
        \A k \in SliceIds(input, axis) :
            LET S == SlicesOf(input, axis)[k]
            IN  AllZero(input, S) => \A c \in S : At(Caller, c) = Eps

\* C5 amended: when normalize returns, an all-zero slice of the input has
\* been rescaled to sum to one: each of its cells outside the structural
\* mask is 1/m, m the number of such cells in the slice, and each of its
\* masked cells is eps; none is nan.
C5_ZeroSliceUniform ==
    Completed("normalize") =>
        \A k \in SliceIds(input, axis) :
            LET S == SlicesOf(input, axis)[k]
                m == Cardinality(S \ FourCells)
            IN  AllZero(input, S) =>
                    \A c \in S :
                        At(Caller, c) = IF c \in FourCells THEN Eps ELSE Fin(1, m)

\* C5 witness: a matrix with an all-zero first row and a row that is not
\* zero was normalized along axis 1; the first row is 1/2, 1/2, eps.
C5_Witness ==
    /\ Completed("normalize")
    /\ axis = <<1>>
    /\ AllZero(input, SlicesOf(input, axis)[1])
    /\ ~AllZero(input, SlicesOf(input, axis)[2])
    /\ Cols(input) = 3
    /\ Caller.v[1] = <<Fin(1, 2), Fin(1, 2), Eps>>

\* C6: for a matrix and every axis (None, 0, or another valid axis): where
\* the sum normalize computes over a slice is 0, the divisor of that slice
\* is 1, the call does not raise, the slice holds no nan or inf, and its
\* values are what they were before the division.
C6_ZeroSumDividedByOne ==
    (Called("normalize") /\ input.ndim > 1 /\ locals.a_sum # Unbound) =>
        \A k \in SliceIds(input, axis) :
            SumAt(locals.a_sum, k) = Zero =>
                /\ raised = "none"
                /\ SumAt(locals.divisor, k) = One
                /\ \A c \in SlicesOf(input, axis)[k] :
                      /\ IsFin(At(Caller, c))
                      /\ c \notin locals.filled
                            => At(Caller, c) = At(locals.at_sum, c)

\* C7 as stated: the structural mask is three cells.
C7_ThreeCells ==
    Completed("normalize") =>
        /\ Cardinality(locals.zeroed) = 3
        /\ locals.filled = locals.zeroed

\* C7 amended: the structural mask is the four cells a[0][2], a[1][0],
\* a[2][0], a[2][1].  No call assigns any other cell; in a call that
\* returns exactly these cells are 0.0 when the sum is computed and eps
\* after the division, and every other cell is the input plus eps when the
\* sum is computed and that value divided by its divisor afterwards.
C7_FourCells ==
    Called("normalize") =>
        /\ locals.zeroed \subseteq FourCells
        /\ locals.filled \subseteq FourCells
        /\ raised = "none" =>
              /\ locals.zeroed = FourCells
              /\ locals.filled = FourCells
              /\ \A c \in Cells(input) :
                    IF c \in FourCells
                    THEN /\ At(locals.at_sum, c) = Zero
                         /\ At(Caller, c) = Eps
                    ELSE /\ At(locals.at_sum, c) = AddF(At(input, c), Eps)
                         /\ At(Caller, c) =
                               DivF(At(locals.at_sum, c),
                                    Broadcast(locals.divisor, c[1] + 1, c[2] + 1))

\* C7 witness: a 3x3 matrix of ones was normalized along axis 1.
C7_Witness ==
    /\ Completed("normalize")
    /\ axis = <<1>>
    /\ input = Matrix(<<<<One, One, One>>, <<One, One, One>>, <<One, One, One>>>>)
    /\ Caller = Matrix(<<<<Fin(1, 2), Fin(1, 2), Eps>>,
                         <<Eps, Fin(1, 2), Fin(1, 2)>>,
                         <<Eps, Eps, One>>>>)

\* C8: normalize(a, axis=0) and normalize(a) of a non-negative vector both
\* return it, without raising, normalized to sum to 1, and do the same to it.
C8_VectorAxis0LikeNone ==
    (Called("normalize") /\ input.ndim = 1 /\ axis \in {<<>>, <<0>>}
        /\ NonNegative(input)) =>
        /\ raised = "none"
        /\ ret = 1
        /\ SumsToOne(SumOver(Caller, Cells(Caller)))
        /\ Caller = normalize(<<input>>, 1, IF axis = <<>> THEN <<0>> ELSE <<>>).heap[1]

\* C9: normalize, when it returns, returns the caller's own array, written
\* in place; exp_mask_zero, log_mask_zero and logsumexp leave every element
\* of their argument as it was and return an array allocated by the call.
C9_OnlyNormalizeMutates ==
    /\ Completed("normalize") =>
          /\ ret = 1
          /\ Len(heap) = 1
          /\ \A c \in FourCells : At(Caller, c) = Eps
    /\ (Called("exp_mask_zero") \/ Called("log_mask_zero") \/ Called("logsumexp")) =>
          /\ Caller = input
          /\ ret \in 2 .. Len(heap)

\* C9 witness: normalize has returned the caller's own array, which is no
\* longer what it was when the call was made.
C9_Witness ==
    /\ Completed("normalize")
    /\ ret = 1
    /\ Caller # input
    /\ axis = <<>>

RECURSIVE Total(_)
Total(s) == IF s = <<>> THEN 0 ELSE s[1] + Total(Tail(s))

\* C10: with lengths None the generator yields the one pair (0, len(X));
\* else, if sum(lengths) exceeds the number of samples it raises ValueError
\* before it yields; else it yields len(lengths) pairs, the first starting
\* at 0, each ending lengths[i] after its start, each starting where the
\* one before ended, the last ending at sum(lengths).
C10_SegmentsContiguous ==
    Called("iter_from_X_lengths") =>
        LET n == Len(input.v)
            ls == lengths.v
        IN  IF ~lengths.given
            THEN raised = "none" /\ yielded = <<<<0, n>>>>
            ELSE IF Total(ls) > n
            THEN raised = "ValueError" /\ yielded = <<>>
            ELSE /\ raised = "none"
                 /\ Len(yielded) = Len(ls)
                 /\ \A i \in 1 .. Len(ls) :
                       /\ yielded[i][1] = (IF i = 1 THEN 0 ELSE yielded[i - 1][2])
                       /\ yielded[i][2] = yielded[i][1] + ls[i]
                 /\ ls # <<>> => yielded[Len(ls)][2] = Total(ls)

====
